---------------------------- MODULE Spec2Model ----------------------------
(***************************************************************************)
(* A model of cava_tools.discrete_summary: the header name correction, the *)
(* record cleaner, the type validator, the content lister's "latest"       *)
(* selection, the per-array accumulation and the profile/discrete split.   *)
(*                                                                         *)
(* Text is modelled character by character: a Python str is a sequence of  *)
(* one-character strings, so that `in`, str.replace, str.lower,            *)
(* str.endswith and the regular expressions of the source are computed on  *)
(* the characters and not assumed.                                         *)
(***************************************************************************)
EXTENDS Integers, Sequences, FiniteSets, TLC

VARIABLES
    \* validator.check_name applied to a header name, once and twice
    name, once, twice, pcName,
    \* one record's station on its way through read_and_clean and the split
    station, array_rd, clean_station, area_rd, pcArea,
    \* parser.parse_profile_and_discrete on one cleaned sample table
    sampledf, tag, profile_df, discrete_df, pcParse,
    \* api.split_summary_data over the per-array tables
    svdf_dict, profile_list, discrete_list, summary, pcSplit,
    \* parser.clean_discrete_summary on one raw table
    svdf, all_cleaned, pcClean,
    \* api.get_contents / filter_contents / get_latest_content
    folders, contents, latest, pcLatest,
    \* validator.check_types_and_replace on one table
    df0, df, pcTypes,
    \* api.read_and_clean over a table of descriptors
    discrete_summaries, svdf_arrays, pcRead

nameVars == <<name, once, twice, pcName>>
areaVars == <<station, array_rd, clean_station, area_rd, pcArea>>
parseVars == <<sampledf, tag, profile_df, discrete_df, pcParse>>
splitVars == <<svdf_dict, profile_list, discrete_list, summary, pcSplit>>
cleanVars == <<svdf, all_cleaned, pcClean>>
latestVars == <<folders, contents, latest, pcLatest>>
typesVars == <<df0, df, pcTypes>>
readVars == <<discrete_summaries, svdf_arrays, pcRead>>
vars == <<nameVars, areaVars, parseVars, splitVars, cleanVars, latestVars, typesVars, readVars>>

\* what the name operations leave alone
notName == <<areaVars, parseVars, splitVars, cleanVars, latestVars, typesVars, readVars>>
\* what the area operations leave alone
notArea == <<nameVars, parseVars, splitVars, cleanVars, latestVars, typesVars, readVars>>
\* what the parse operations leave alone
notParse == <<nameVars, areaVars, splitVars, cleanVars, latestVars, typesVars, readVars>>
\* what the split operations leave alone
notSplit == <<nameVars, areaVars, parseVars, cleanVars, latestVars, typesVars, readVars>>
\* what the clean operations leave alone
notClean == <<nameVars, areaVars, parseVars, splitVars, latestVars, typesVars, readVars>>
\* what the latest operations leave alone
notLatest == <<nameVars, areaVars, parseVars, splitVars, cleanVars, typesVars, readVars>>
\* what the types operations leave alone
notTypes == <<nameVars, areaVars, parseVars, splitVars, cleanVars, latestVars, readVars>>
\* what the read operations leave alone
notRead == <<nameVars, areaVars, parseVars, splitVars, cleanVars, latestVars, typesVars>>

IdleName ==
    /\ name = "idle"
    /\ once = "idle"
    /\ twice = "idle"
    /\ pcName = "idle"

IdleArea ==
    /\ station = "idle"
    /\ array_rd = "idle"
    /\ clean_station = "idle"
    /\ area_rd = "idle"
    /\ pcArea = "idle"

IdleParse ==
    /\ sampledf = "idle"
    /\ tag = "idle"
    /\ profile_df = "idle"
    /\ discrete_df = "idle"
    /\ pcParse = "idle"

IdleSplit ==
    /\ svdf_dict = "idle"
    /\ profile_list = "idle"
    /\ discrete_list = "idle"
    /\ summary = "idle"
    /\ pcSplit = "idle"

IdleClean ==
    /\ svdf = "idle"
    /\ all_cleaned = "idle"
    /\ pcClean = "idle"

IdleLatest ==
    /\ folders = "idle"
    /\ contents = "idle"
    /\ latest = "idle"
    /\ pcLatest = "idle"

IdleTypes ==
    /\ df0 = "idle"
    /\ df = "idle"
    /\ pcTypes = "idle"

IdleRead ==
    /\ discrete_summaries = "idle"
    /\ svdf_arrays = "idle"
    /\ pcRead = "idle"

(***************************************************************************)
(* Bounds of the model.                                                    *)
(***************************************************************************)
\* words in a header name
MaxWords == 2
\* phrases in a station text
MaxPhrases == 2

\* columns of a sample table beyond the ones the split reads
MaxExtra == 2

\* rows of a table
MaxRows == 2

\* files in one cruise folder
MaxFiles == 2

\* cells in a column of the table the type validator gets
MaxCells == 2

\* descriptors in the table read_and_clean gets
MaxDescriptors == 3

(***************************************************************************)
(* Python str operations on character sequences.                           *)
(***************************************************************************)
UpperCase == <<"A","B","C","D","E","F","G","H","I","J","K","L","M","N","O","P","Q","R","S","T","U","V","W","X","Y","Z">>
LowerCase == <<"a","b","c","d","e","f","g","h","i","j","k","l","m","n","o","p","q","r","s","t","u","v","w","x","y","z">>

\* str.lower() of one character
LowerChar(c) ==
    IF \E i \in 1..Len(UpperCase) : UpperCase[i] = c
    THEN LowerCase[CHOOSE i \in 1..Len(UpperCase) : UpperCase[i] = c]
    ELSE c

\* s.lower()
Lower(s) == [i \in 1..Len(s) |-> LowerChar(s[i])]

\* p occurs in s starting at position i
IsAt(s, i, p) ==
    /\ i >= 1
    /\ i + Len(p) - 1 <= Len(s)
    /\ s[i] = p[1]
    /\ \A k \in 2..Len(p) : s[i + k - 1] = p[k]

\* p in s
Contains(s, p) == \E i \in 1..Len(s) : IsAt(s, i, p)

\* s.endswith(p)
EndsWith(s, p) == Len(p) <= Len(s) /\ IsAt(s, Len(s) - Len(p) + 1, p)

RECURSIVE ReplaceFrom(_, _, _, _)
ReplaceFrom(s, i, old, new) ==
    IF i > Len(s) THEN <<>>
    ELSE IF IsAt(s, i, old)
         THEN new \o ReplaceFrom(s, i + Len(old), old, new)
         ELSE <<s[i]>> \o ReplaceFrom(s, i + 1, old, new)

\* s.replace(old, new): every non-overlapping occurrence, left to right
Replace(s, old, new) == ReplaceFrom(s, 1, old, new)

RECURSIVE Join(_, _)
\* sep.join(parts)
Join(parts, sep) ==
    IF Len(parts) = 0 THEN <<>>
    ELSE IF Len(parts) = 1 THEN parts[1]
    ELSE parts[1] \o sep \o Join(Tail(parts), sep)

\* all sequences over S of length 1..n
SeqsUpTo(S, n) == UNION { [1..k -> S] : k \in 1..n }

(***************************************************************************)
(* Canonical column names (get_ds_labels: lower case, "_" for " ") and the *)
(* terms the source looks for in them.                                     *)
(***************************************************************************)
\* the terms the source looks for in a column name
Term ==
    [ ctd |-> <<"c","t","d">>,
      date |-> <<"d","a","t","e">>,
      area_rd |-> <<"a","r","e","a","_","r","d">>,
      cruise_id |-> <<"c","r","u","i","s","e","_","i","d">>,
      flag |-> <<"f","l","a","g">>,
      file |-> <<"f","i","l","e">>,
      bottle_closure_time |-> <<"b","o","t","t","l","e","_","c","l","o","s","u","r","e","_","t","i","m","e">>,
      depth |-> <<"d","e","p","t","h">>,
      latitude |-> <<"l","a","t","i","t","u","d","e">>,
      longitude |-> <<"l","o","n","g","i","t","u","d","e">>,
      beam_attenuation |-> <<"b","e","a","m","_","a","t","t","e","n","u","a","t","i","o","n">>,
      oxygen_saturation |-> <<"o","x","y","g","e","n","_","s","a","t","u","r","a","t","i","o","n">>,
      suffix_2 |-> <<"_","2">>,
      suffix_1 |-> <<"_","1">>,
      ctd_pressure |-> <<"c","t","d","_","p","r","e","s","s","u","r","e">>,
      discrete |-> <<"d","i","s","c","r","e","t","e">>,
      calculated |-> <<"c","a","l","c","u","l","a","t","e","d">>,
      time |-> <<"t","i","m","e">> ]

\* canonical column names
Col ==
    [ array_rd |-> <<"a","r","r","a","y","_","r","d">>,
      cruise |-> <<"c","r","u","i","s","e">>,
      station |-> <<"s","t","a","t","i","o","n">>,
      start_time |-> <<"s","t","a","r","t","_","t","i","m","e">>,
      ctd_temperature |-> <<"c","t","d","_","t","e","m","p","e","r","a","t","u","r","e">>,
      ctd_temperature_1 |-> <<"c","t","d","_","t","e","m","p","e","r","a","t","u","r","e","_","1">>,
      ctd_temperature_2 |-> <<"c","t","d","_","t","e","m","p","e","r","a","t","u","r","e","_","2">>,
      ctd_conductivity |-> <<"c","t","d","_","c","o","n","d","u","c","t","i","v","i","t","y">>,
      ctd_conductivity_1 |-> <<"c","t","d","_","c","o","n","d","u","c","t","i","v","i","t","y","_","1">>,
      ctd_conductivity_2 |-> <<"c","t","d","_","c","o","n","d","u","c","t","i","v","i","t","y","_","2">>,
      ctd_salinity |-> <<"c","t","d","_","s","a","l","i","n","i","t","y">>,
      ctd_salinity_1 |-> <<"c","t","d","_","s","a","l","i","n","i","t","y","_","1">>,
      ctd_salinity_2 |-> <<"c","t","d","_","s","a","l","i","n","i","t","y","_","2">>,
      ctd_pressure_flag |-> <<"c","t","d","_","p","r","e","s","s","u","r","e","_","f","l","a","g">>,
      ctd_depth |-> <<"c","t","d","_","d","e","p","t","h">>,
      ctd_file |-> <<"c","t","d","_","f","i","l","e">>,
      ctd_bottle_closure_time |-> <<"c","t","d","_","b","o","t","t","l","e","_","c","l","o","s","u","r","e","_","t","i","m","e">>,
      ctd_oxygen |-> <<"c","t","d","_","o","x","y","g","e","n">>,
      ctd_oxygen_saturation |-> <<"c","t","d","_","o","x","y","g","e","n","_","s","a","t","u","r","a","t","i","o","n">>,
      ctd_beam_attenuation |-> <<"c","t","d","_","b","e","a","m","_","a","t","t","e","n","u","a","t","i","o","n">>,
      ctd_latitude |-> <<"c","t","d","_","l","a","t","i","t","u","d","e">>,
      start_latitude |-> <<"s","t","a","r","t","_","l","a","t","i","t","u","d","e">>,
      discrete_oxygen |-> <<"d","i","s","c","r","e","t","e","_","o","x","y","g","e","n">>,
      discrete_oxygen_flag |-> <<"d","i","s","c","r","e","t","e","_","o","x","y","g","e","n","_","f","l","a","g">>,
      calculated_dic |-> <<"c","a","l","c","u","l","a","t","e","d","_","d","i","c">>,
      calculated_pco2 |-> <<"c","a","l","c","u","l","a","t","e","d","_","p","c","o","2">> ]

(***************************************************************************)
(* validator.py: check_name                                                *)
(***************************************************************************)
\* the lower-case texts check_name looks for
NamePattern ==
    [ fluorescense |-> <<"f","l","u","o","r","e","s","c","e","n","s","e">>,
      flourescence |-> <<"f","l","o","u","r","e","s","c","e","n","c","e">>,
      start_positioning |-> <<"s","t","a","r","t"," ","p","o","s","i","t","i","o","n","i","n","g">>,
      phanalysis |-> <<"p","h","a","n","a","l","y","s","i","s">> ]

\* the texts check_name replaces and writes
NameText ==
    [ Fluorescense |-> <<"F","l","u","o","r","e","s","c","e","n","s","e">>,
      Flourescence |-> <<"F","l","o","u","r","e","s","c","e","n","c","e">>,
      Fluorescence |-> <<"F","l","u","o","r","e","s","c","e","n","c","e">>,
      BottomDepth |-> <<"B","o","t","t","o","m"," ","D","e","p","t","h"," ","a","t"," ","S","t","a","r","t"," ","P","o","s","i","t","i","o","n">>,
      pHAnalysis |-> <<"p","H","A","n","a","l","y","s","i","s">>,
      pH_Analysis |-> <<"p","H"," ","A","n","a","l","y","s","i","s">> ]

\* other words of a header name
NameWord ==
    [ Start_Positioning |-> <<"S","t","a","r","t"," ","P","o","s","i","t","i","o","n","i","n","g">>,
      PHANALYSIS |-> <<"P","H","A","N","A","L","Y","S","I","S">>,
      Depth |-> <<"D","e","p","t","h">>,
      CTD |-> <<"C","T","D">> ]

check_name(n) ==
    LET low_name == Lower(n) IN
    IF Contains(low_name, NamePattern.fluorescense) \/ Contains(low_name, NamePattern.flourescence)
    THEN Replace(Replace(n, NameText.Fluorescense, NameText.Fluorescence),
                 NameText.Flourescence, NameText.Fluorescence)
    ELSE IF Contains(low_name, NamePattern.start_positioning)
    THEN NameText.BottomDepth
    ELSE IF Contains(low_name, NamePattern.phanalysis)
    THEN Replace(n, NameText.pHAnalysis, NameText.pH_Analysis)
    ELSE n

\* words a header name is made of
NameWords ==
    { NameText.Fluorescense, NameText.Flourescence, NamePattern.flourescence, NameText.Fluorescence,
      NameWord.Start_Positioning, NamePattern.start_positioning, NameText.pHAnalysis, NameWord.PHANALYSIS,
      NameWord.Depth, NameWord.CTD }

Space == <<" ">>

HeaderNames == { Join(ws, Space) : ws \in SeqsUpTo(NameWords, MaxWords) }

InitName ==
    /\ name \in HeaderNames
    /\ once = <<>>
    /\ twice = <<>>
    /\ pcName = "input"
    /\ IdleArea /\ IdleParse /\ IdleSplit /\ IdleClean
    /\ IdleLatest /\ IdleTypes /\ IdleRead

\* get_ds_labels corrects a header's name portion
CheckName ==
    /\ pcName = "input"
    /\ once' = check_name(name)
    /\ pcName' = "once"
    /\ UNCHANGED <<name, twice, notName>>

\* the corrected name is corrected again
CheckNameAgain ==
    /\ pcName = "once"
    /\ twice' = check_name(once)
    /\ pcName' = "twice"
    /\ UNCHANGED <<name, once, notName>>

NextName == CheckName \/ CheckNameAgain

SpecName == InitName /\ [][NextName]_vars

\* C4: name correction is idempotent: check_name(check_name(n)) = check_name(n)
\* for every header name n.
C4_Idempotent == pcName = "twice" => twice = once

(***************************************************************************)
(* parser.py: _set_area, and the station's way to it through               *)
(* api.read_and_clean (the "CE" repair) and parse_profile_and_discrete.    *)
(***************************************************************************)
\* the words of the patterns of _set_area
AreaPattern ==
    [ slope |-> <<"s","l","o","p","e">>,
      base |-> <<"b","a","s","e">>,
      axial |-> <<"a","x","i","a","l">>,
      international |-> <<"i","n","t","e","r","n","a","t","i","o","n","a","l">>,
      district |-> <<"d","i","s","t","r","i","c","t">>,
      international_district |-> <<"i","n","t","e","r","n","a","t","i","o","n","a","l"," ","d","i","s","t","r","i","c","t">>,
      caldera |-> <<"c","a","l","d","e","r","a">>,
      hydrate |-> <<"h","y","d","r","a","t","e">>,
      ridge |-> <<"r","i","d","g","e">>,
      mid |-> <<"m","i","d">>,
      plate |-> <<"p","l","a","t","e">>,
      oregon |-> <<"o","r","e","g","o","n">>,
      washington |-> <<"w","a","s","h","i","n","g","t","o","n">>,
      inshore |-> <<"i","n","s","h","o","r","e">>,
      shelf |-> <<"s","h","e","l","f">>,
      offshore |-> <<"o","f","f","s","h","o","r","e">>,
      ce01 |-> <<"c","e","0","1">>,
      ce02 |-> <<"c","e","0","2">>,
      ce04 |-> <<"c","e","0","4">>,
      ce06 |-> <<"c","e","0","6">>,
      ce07 |-> <<"c","e","0","7">>,
      ce09 |-> <<"c","e","0","9">> ]

\* station texts as the summary files publish them
StationPhrase ==
    [ Axial |-> <<"A","x","i","a","l">>,
      axial |-> <<"a","x","i","a","l">>,
      Axial_Base |-> <<"A","x","i","a","l"," ","B","a","s","e">>,
      International_District |-> <<"I","n","t","e","r","n","a","t","i","o","n","a","l"," ","D","i","s","t","r","i","c","t">>,
      INTERNATIONAL_DISTRICT |-> <<"I","N","T","E","R","N","A","T","I","O","N","A","L"," "," ","D","I","S","T","R","I","C","T">>,
      Caldera |-> <<"C","a","l","d","e","r","a">>,
      Slope_Base |-> <<"S","l","o","p","e"," ","B","a","s","e">>,
      Hydrate_Ridge |-> <<"S","o","u","t","h","e","r","n"," ","H","y","d","r","a","t","e"," ","R","i","d","g","e">>,
      Mid_Plate |-> <<"M","i","d"," ","P","l","a","t","e">>,
      Oregon_Offshore |-> <<"O","r","e","g","o","n"," ","O","f","f","s","h","o","r","e">>,
      Oregon_Shelf |-> <<"O","r","e","g","o","n"," ","S","h","e","l","f">>,
      Washington_Inshore |-> <<"W","a","s","h","i","n","g","t","o","n"," ","I","n","s","h","o","r","e">>,
      CE04OSPM |-> <<"C","E","0","4","O","S","P","M">>,
      CEO4OSPM |-> <<"C","E","O","4","O","S","P","M">>,
      CE01ISSM |-> <<"C","E","0","1","I","S","S","M">>,
      Atlantis |-> <<"A","t","l","a","n","t","i","s">> ]

\* what \s matches
Whitespace == { " ", "\t", "\n" }

\* a value that is not a str (a missing station is a float NaN)
NaN == <<"NaN">>

\* re.search(a\s+b, st)
SearchWs(st, a, b) ==
    \E i \in 1..Len(st) :
        /\ IsAt(st, i, a)
        /\ \E j \in (i + Len(a) + 1)..Len(st) :
              /\ IsAt(st, j, b)
              /\ \A k \in (i + Len(a))..(j - 1) : st[k] \in Whitespace

\* re.search(a.*b\s+c, st): "." matches everything but a line break
SearchDotStarWs(st, a, b, c) ==
    \E i \in 1..Len(st) :
        /\ IsAt(st, i, a)
        /\ \E j \in (i + Len(a))..Len(st) :
              /\ IsAt(st, j, b)
              /\ \A k \in (i + Len(a))..(j - 1) : st[k] # "\n"
              /\ \E m \in (j + Len(b) + 1)..Len(st) :
                    /\ IsAt(st, m, c)
                    /\ \A k \in (j + Len(b))..(m - 1) : st[k] \in Whitespace

UnknownArea == "ValueError: Unknown area"

\* the if / elif chain over st = station.lower(); an optional leading group
\* such as (oregon\s+)? does not change whether re.search finds a match
AreaOf(st) ==
    IF SearchWs(st, AreaPattern.slope, AreaPattern.base) THEN "oregon-slope-base"
    ELSE IF SearchWs(st, AreaPattern.axial, AreaPattern.base) THEN "axial-base"
    ELSE IF SearchDotStarWs(st, AreaPattern.axial, AreaPattern.international, AreaPattern.district) THEN "axial-caldera"
    ELSE IF SearchWs(st, AreaPattern.axial, AreaPattern.caldera) THEN "axial-caldera"
    ELSE IF SearchWs(st, AreaPattern.hydrate, AreaPattern.ridge) THEN "southern-hydrate-ridge"
    ELSE IF SearchWs(st, AreaPattern.mid, AreaPattern.plate) THEN "mid-plate"
    ELSE IF SearchWs(st, AreaPattern.oregon, AreaPattern.inshore) \/ Contains(st, AreaPattern.ce01) THEN "oregon-inshore"
    ELSE IF SearchWs(st, AreaPattern.oregon, AreaPattern.shelf) \/ Contains(st, AreaPattern.ce02) THEN "oregon-shelf"
    ELSE IF SearchWs(st, AreaPattern.oregon, AreaPattern.offshore) \/ Contains(st, AreaPattern.ce04) THEN "oregon-offshore"
    ELSE IF SearchWs(st, AreaPattern.washington, AreaPattern.inshore) \/ Contains(st, AreaPattern.ce06) THEN "washington-inshore"
    ELSE IF SearchWs(st, AreaPattern.washington, AreaPattern.shelf) \/ Contains(st, AreaPattern.ce07) THEN "washington-shelf"
    ELSE IF SearchWs(st, AreaPattern.washington, AreaPattern.offshore) \/ Contains(st, AreaPattern.ce09) THEN "washington-offshore"
    ELSE UnknownArea

\* A faulty variant: the patterns are matched against the station as published,
\* not against station.lower().
_set_area_no_lower(st) == IF st # NaN THEN AreaOf(st) ELSE ""

\* _set_area(station): the area, "" for a station that is no str, or the
\* ValueError for a text no pattern matches
_set_area(st) == IF st # NaN THEN AreaOf(Lower(st)) ELSE ""

\* the "Fix some O, 0 weirdness" of read_and_clean, applied to one station
FixStation(array, st) ==
    IF array = "CE"
    THEN (IF st # NaN THEN Replace(st, <<"O">>, <<"0">>) ELSE st)
    ELSE st

StationPhrases ==
    { StationPhrase.Axial, StationPhrase.axial, StationPhrase.Axial_Base, StationPhrase.International_District,
      StationPhrase.INTERNATIONAL_DISTRICT, StationPhrase.Caldera, StationPhrase.Slope_Base, StationPhrase.Hydrate_Ridge,
      StationPhrase.Mid_Plate, StationPhrase.Oregon_Offshore, StationPhrase.Oregon_Shelf, StationPhrase.Washington_Inshore,
      StationPhrase.CE04OSPM, StationPhrase.CEO4OSPM, StationPhrase.CE01ISSM, StationPhrase.Atlantis }

Stations == { Join(ps, Space) : ps \in SeqsUpTo(StationPhrases, MaxPhrases) } \cup { NaN }

\* array reference designators of the source registry
Arrays == { "RS", "CE", "CP" }

InitArea ==
    /\ station \in Stations
    /\ array_rd \in Arrays
    /\ clean_station = NaN
    /\ area_rd = ""
    /\ pcArea = "published"
    /\ IdleName /\ IdleParse /\ IdleSplit /\ IdleClean
    /\ IdleLatest /\ IdleTypes /\ IdleRead

\* read_and_clean: the record's station after the "CE" repair
ReadAndCleanStation ==
    /\ pcArea = "published"
    /\ clean_station' = FixStation(array_rd, station)
    /\ pcArea' = "cleaned"
    /\ UNCHANGED <<station, array_rd, area_rd, notArea>>

\* split_summary_data -> parse_profile_and_discrete: area_rd = _set_area(station)
DeriveArea ==
    /\ pcArea = "cleaned"
    /\ LET a == _set_area(clean_station) IN
       IF a = UnknownArea
       THEN pcArea' = "ValueError" /\ UNCHANGED area_rd
       ELSE pcArea' = "split" /\ area_rd' = a
    /\ UNCHANGED <<station, array_rd, clean_station, notArea>>

NextArea == ReadAndCleanStation \/ DeriveArea

SpecArea == InitArea /\ [][NextArea]_vars

\* the outcome of _set_area on the text it was given
AreaOutcome == IF pcArea = "ValueError" THEN UnknownArea ELSE area_rd
AreaDerived == pcArea \in { "split", "ValueError" }

AxialFirst(st) ==
    \E i \in 1..Len(st) :
        /\ IsAt(st, i, AreaPattern.axial)
        /\ \E j \in (i + Len(AreaPattern.axial))..Len(st) :
              /\ IsAt(st, j, AreaPattern.international_district)
              /\ \A k \in i..j : st[k] # "\n"

C10_AreaOfPublished ==
    AreaDerived =>
        /\ AreaOutcome = _set_area(station)
        /\ (station = StationPhrase.Oregon_Offshore => AreaOutcome = "oregon-offshore")

(***************************************************************************)
(* parser.py: parse_profile_and_discrete.  A table is modelled by its      *)
(* column index; rows are carried where an operation reads them.           *)
(***************************************************************************)
\* Index.str.contains("a|b|..."): one of the alternatives occurs in the name
StrContains(col, alternatives) == \E a \in alternatives : Contains(col, a)

\* the mask of profile_cols
IsProfileCol(col) ==
    /\ StrContains(col, { Term.ctd, Term.date, Term.area_rd, Term.cruise_id })
    /\ ~StrContains(col, { Term.flag, Term.file, Term.bottle_closure_time, Term.depth,
                           Term.latitude, Term.longitude, Term.beam_attenuation,
                           Term.oxygen_saturation, Term.suffix_2, Term.suffix_1 })

\* A faulty variant: the discrete mask looks for "ctd" where the source looks for
\* "ctd_pressure".
IsDiscreteColAnyCtd(col) ==
    /\ StrContains(col, { Term.area_rd, Term.cruise_id, Term.date, Term.ctd,
                          Term.discrete, Term.calculated })
    /\ ~StrContains(col, { Term.flag })

\* the mask of discrete_cols
IsDiscreteCol(col) ==
    /\ StrContains(col, { Term.area_rd, Term.cruise_id, Term.date, Term.ctd_pressure,
                          Term.discrete, Term.calculated })
    /\ ~StrContains(col, { Term.flag })

\* the columns parse_profile_and_discrete reads; a table without one of
\* them ends in a KeyError
ReadBySplit ==
    { Col.station, Col.start_time,
      Col.ctd_temperature_1, Col.ctd_temperature_2,
      Col.ctd_conductivity_1, Col.ctd_conductivity_2,
      Col.ctd_salinity_1, Col.ctd_salinity_2 }

\* the columns it assigns before the two masks are taken
AddedBySplit ==
    { Col.ctd_temperature, Col.ctd_conductivity, Col.ctd_salinity, Term.date, Term.area_rd }

\* columns a cleaned table may carry besides the ones the split reads and
\* the cruise_id read_and_clean assigns
OtherColumns ==
    { Col.cruise, Term.ctd_pressure, Col.ctd_pressure_flag, Col.ctd_depth, Col.ctd_file,
      Col.ctd_bottle_closure_time, Col.ctd_oxygen, Col.ctd_oxygen_saturation,
      Col.ctd_beam_attenuation, Col.ctd_latitude, Col.start_latitude,
      Col.discrete_oxygen, Col.discrete_oxygen_flag, Col.calculated_dic,
      Col.calculated_pco2 }

\* every column name of the model
ColumnNames == ReadBySplit \cup AddedBySplit \cup OtherColumns \cup { Term.cruise_id }

\* the two masks over the column names of the model, taken once
ProfileMask == { c \in ColumnNames : IsProfileCol(c) }
DiscreteMask == { c \in ColumnNames : IsDiscreteCol(c) }

\* the column index of (profile_df, discrete_df), array_rd assigned last
parse_profile_and_discrete(columns) ==
    LET all == columns \cup AddedBySplit IN
    [ profile  |-> (all \cap ProfileMask) \cup { Col.array_rd },
      discrete |-> (all \cap DiscreteMask) \cup { Col.array_rd } ]

CleanedColumns ==
    { ReadBySplit \cup { Term.cruise_id } \cup extra :
        extra \in { T \in SUBSET OtherColumns : Cardinality(T) <= MaxExtra } }

InitParse ==
    /\ sampledf \in CleanedColumns
    /\ tag \in Arrays
    /\ profile_df = {}
    /\ discrete_df = {}
    /\ pcParse = "cleaned"
    /\ IdleName /\ IdleArea /\ IdleSplit /\ IdleClean
    /\ IdleLatest /\ IdleTypes /\ IdleRead

\* parse_profile_and_discrete(sampledf, array_rd): sampledf gets the added
\* columns in place
ParseProfileAndDiscrete ==
    /\ pcParse = "cleaned"
    /\ LET r == parse_profile_and_discrete(sampledf) IN
         /\ profile_df' = r.profile
         /\ discrete_df' = r.discrete
    /\ sampledf' = sampledf \cup AddedBySplit
    /\ pcParse' = "parsed"
    /\ UNCHANGED <<tag, notParse>>

NextParse == ParseProfileAndDiscrete

SpecParse == InitParse /\ [][NextParse]_vars

Identifying == { Term.cruise_id, Term.date, Term.area_rd, Col.array_rd }

\* C1 as stated: the profile and the discrete table share no column other
\* than cruise_id, date, area_rd and array_rd.
C1_OnlyIdentifying ==
    pcParse = "parsed" => (profile_df \cap discrete_df) \subseteq Identifying

\* C1 amended: the two tables share no column other than the identifying
\* columns and ctd_pressure.
C1_IdentifyingAndPressure ==
    pcParse = "parsed" =>
        (profile_df \cap discrete_df) \subseteq (Identifying \cup { Term.ctd_pressure })

\* the amended C1 happens: a table with ctd_pressure and other ctd, discrete
\* and calculated columns was split, and exactly the five columns are shared
C1_Witness ==
    /\ pcParse = "parsed"
    /\ Term.ctd_pressure \in sampledf
    /\ Col.discrete_oxygen \in sampledf
    /\ profile_df \cap discrete_df = Identifying \cup { Term.ctd_pressure }
    /\ Col.discrete_oxygen \in discrete_df \ profile_df
    /\ Col.ctd_temperature \in profile_df \ discrete_df

(***************************************************************************)
(* api.py: split_summary_data.  A per-array table carries its column index *)
(* and, per row, the values of the calculated_dic and calculated_pco2      *)
(* columns it has; "NaN" is a missing value.  The stations of these tables *)
(* are recognised ones (SpecArea covers _set_area).                        *)
(***************************************************************************)
Calculated == { Col.calculated_dic, Col.calculated_pco2 }

CellValues == { "NaN", "2.1" }

\* tables as read_and_clean returns them, with any of the two columns
SampleTables ==
    UNION { UNION { { [ columns |-> ReadBySplit \cup { Term.cruise_id, Term.ctd_pressure } \cup calc,
                        rows    |-> rs ] : rs \in [1..n -> [calc -> CellValues]] }
                    : n \in 0..MaxRows }
            : calc \in SUBSET Calculated }

\* all(discrete_df[col].isna())
AllNa(rows, col) == \A r \in 1..Len(rows) : rows[r][col] = "NaN"

\* the rows with the columns outside keep dropped
Project(rows, keep) ==
    [ r \in 1..Len(rows) |-> [ c \in (DOMAIN rows[r]) \cap keep |-> rows[r][c] ] ]

\* discrete_df.drop(col, axis=1, inplace=True) when every value is missing
DropIfAllNa(d, col) ==
    IF AllNa(d.rows, col)
    THEN [ d EXCEPT !.columns = @ \ { col },
                    !.rows = Project(@, (d.columns \cap Calculated) \ { col }) ]
    ELSE d

RECURSIVE SplitLoop(_, _, _, _)
\* the loop over svdf_dict.items(), from entry i on; a KeyError leaves the
\* lists as they are at the raise
SplitLoop(dict, i, profiles, discretes) ==
    IF i > Len(dict) THEN [ pc |-> "done", profile_list |-> profiles, discrete_list |-> discretes ]
    ELSE
      LET k == dict[i].array_rd
          v == dict[i].table
          parsed == parse_profile_and_discrete(v.columns)
          profile == [ array_rd |-> k, columns |-> parsed.profile, nrows |-> Len(v.rows) ]
          discrete == [ array_rd |-> k, columns |-> parsed.discrete,
                        rows |-> Project(v.rows, parsed.discrete) ]
          pl == Append(profiles, profile)
          raised == [ pc |-> "KeyError", profile_list |-> pl, discrete_list |-> discretes ]
      IN
      IF \E c \in Calculated : c \in discrete.columns
      THEN IF Col.calculated_dic \notin discrete.columns THEN raised
           ELSE LET d1 == DropIfAllNa(discrete, Col.calculated_dic) IN
                IF Col.calculated_pco2 \notin d1.columns THEN raised
                ELSE SplitLoop(dict, i + 1, pl,
                               Append(discretes, DropIfAllNa(d1, Col.calculated_pco2)))
      ELSE SplitLoop(dict, i + 1, pl, Append(discretes, discrete))

RECURSIVE UnionColumns(_)
UnionColumns(list) ==
    IF Len(list) = 0 THEN {} ELSE list[1].columns \cup UnionColumns(Tail(list))

RECURSIVE SumRows(_)
SumRows(list) ==
    IF Len(list) = 0 THEN 0 ELSE list[1].nrows + SumRows(Tail(list))

RECURSIVE ConcatRows(_, _)
\* pd.concat(sort=False): a column a fragment lacks is missing in its rows
ConcatRows(list, cols) ==
    IF Len(list) = 0 THEN <<>>
    ELSE [ r \in 1..Len(list[1].rows) |->
             [ c \in cols |-> IF c \in DOMAIN list[1].rows[r]
                              THEN list[1].rows[r][c] ELSE "NaN" ] ]
         \o ConcatRows(Tail(list), cols)

\* {"profile": all_profiles, "discrete": all_discrete}
Concatenated(profiles, discretes) ==
    [ profile  |-> [ columns |-> UnionColumns(profiles), nrows |-> SumRows(profiles) ],
      discrete |-> [ columns |-> UnionColumns(discretes),
                     rows |-> ConcatRows(discretes, UnionColumns(discretes) \cap Calculated) ] ]

\* svdf_dict in insertion order: one table per array
SampleDicts ==
    { <<[ array_rd |-> a, table |-> t ]>> : a \in { "RS", "CE" }, t \in SampleTables }
    \cup
    { <<[ array_rd |-> a[1], table |-> t1 ], [ array_rd |-> a[2], table |-> t2 ]>> :
        a \in { <<"RS", "CE">>, <<"CE", "RS">> }, t1 \in SampleTables, t2 \in SampleTables }

NoSummary == [ profile |-> [ columns |-> {}, nrows |-> 0 ],
               discrete |-> [ columns |-> {}, rows |-> <<>> ] ]

InitSplit ==
    /\ svdf_dict \in SampleDicts
    /\ profile_list = <<>>
    /\ discrete_list = <<>>
    /\ summary = NoSummary
    /\ pcSplit = "accumulated"
    /\ IdleName /\ IdleArea /\ IdleParse /\ IdleClean
    /\ IdleLatest /\ IdleTypes /\ IdleRead

\* split_summary_data(svdf_dict)
SplitSummaryData ==
    /\ pcSplit = "accumulated"
    /\ LET r == SplitLoop(svdf_dict, 1, <<>>, <<>>) IN
         /\ profile_list' = r.profile_list
         /\ discrete_list' = r.discrete_list
         /\ pcSplit' = r.pc
         /\ summary' = IF r.pc = "done"
                       THEN Concatenated(r.profile_list, r.discrete_list)
                       ELSE summary
    /\ UNCHANGED <<svdf_dict, notSplit>>

NextSplit == SplitSummaryData

SpecSplit == InitSplit /\ [][NextSplit]_vars

\* C8: split_summary_data completes for every subset of calculated_dic and
\* calculated_pco2 in the input, and each of the two is dropped from an
\* array's discrete table exactly when it is present and missing in every
\* row.
C8_DropsAllMissing ==
    /\ pcSplit # "KeyError"
    /\ pcSplit = "done" =>
         \A i \in 1..Len(svdf_dict) : \A c \in Calculated :
            c \in discrete_list[i].columns
              <=> (/\ c \in svdf_dict[i].table.columns
                   /\ ~AllNa(svdf_dict[i].table.rows, c))

(***************************************************************************)
(* parser.py: get_ds_labels, _convert_dt, clean_discrete_summary.          *)
(* A raw table is its headers and its rows, a row a tuple of cells.  A     *)
(* cell is "NaN" (missing), "-9999999.0" (the numeric sentinel), a str in  *)
(* single quotes, or, once parsed, a Timestamp or "NaT".                   *)
(***************************************************************************)
s_unnamed == <<"u","n","n","a","m","e","d">>
\* headers of a raw summary file
Header ==
    [ Cruise |-> <<"C","r","u","i","s","e">>,
      Station |-> <<"S","t","a","t","i","o","n">>,
      Start_Time |-> <<"S","t","a","r","t"," ","T","i","m","e"," ","[","U","T","C","]">>,
      Closure_Time |-> <<"C","T","D"," ","B","o","t","t","l","e"," ","C","l","o","s","u","r","e"," ","T","i","m","e"," ","[","U","T","C","]">>,
      Unnamed |-> <<"U","n","n","a","m","e","d",":"," ","1","2">>,
      Percent |-> <<"[","%","]">> ]

Digits == { "0", "1", "2", "3", "4", "5", "6", "7", "8", "9" }

\* what \w matches
IsWordChar(c) ==
    \/ c \in Digits
    \/ c = "_"
    \/ \E i \in 1..Len(LowerCase) : c = LowerCase[i] \/ c = UpperCase[i]

RECURSIVE WordRunEnd(_, _)
\* the position after the run of word characters that starts at i
WordRunEnd(s, i) ==
    IF i <= Len(s) /\ IsWordChar(s[i]) THEN WordRunEnd(s, i + 1) ELSE i

RECURSIVE GroupsEnd(_, _)
\* the position after ((\w+-?\w?)\s?)+ matched greedily from i, where a
\* word character stands
GroupsEnd(s, i) ==
    LET a == WordRunEnd(s, i)
        b == IF a <= Len(s) /\ s[a] = "-" THEN a + 1 ELSE a
        c == IF b <= Len(s) /\ IsWordChar(s[b]) THEN b + 1 ELSE b
        d == IF c <= Len(s) /\ s[c] \in Whitespace THEN c + 1 ELSE c
    IN  IF d <= Len(s) /\ IsWordChar(s[d]) THEN GroupsEnd(s, d) ELSE d

RECURSIVE Strip(_)
\* s.strip()
Strip(s) ==
    IF Len(s) = 0 THEN s
    ELSE IF s[1] \in Whitespace THEN Strip(Tail(s))
    ELSE IF s[Len(s)] \in Whitespace THEN Strip(SubSeq(s, 1, Len(s) - 1))
    ELSE s

\* the header has a name portion: re.search finds a word character
HasName(col) == \E i \in 1..Len(col) : IsWordChar(col[i])

\* group 1 of the match, stripped
NamePortion(col) ==
    LET i == CHOOSE k \in 1..Len(col) :
                 IsWordChar(col[k]) /\ \A m \in 1..(k - 1) : ~IsWordChar(col[m])
    IN  Strip(SubSeq(col, i, GroupsEnd(col, i) - 1))

\* the column layouts of the raw files of the model
Layouts ==
    { <<Header.Cruise, Header.Station, Header.Start_Time>>,
      <<Header.Cruise, Header.Station, Header.Start_Time, Header.Closure_Time>>,
      <<Header.Cruise, Header.Unnamed, Header.Station, Header.Start_Time>>,
      <<Header.Cruise, Header.Station>>,
      <<Header.Station, Header.Start_Time>>,
      <<Header.Cruise, Header.Start_Time>>,
      <<Header.Cruise, Header.Station, Header.Percent>> }

\* every header of the model
Headers == UNION { { h[c] : c \in 1..Len(h) } : h \in Layouts }

\* per header, taken once: the canonical name get_ds_labels appends for it
\* (nothing for a header without a name portion)
LabelOf ==
    [ col \in Headers |->
        IF HasName(col)
        THEN <<Replace(Lower(check_name(NamePortion(col))), <<" ">>, <<"_">>)>>
        ELSE <<>> ]

\* per header, taken once: "unnamed" in c.lower()
IsUnnamed == [ col \in Headers |-> Contains(Lower(col), s_unnamed) ]

RECURSIVE get_ds_labels(_)
\* the "name" list of get_ds_labels(cols), the one clean_discrete_summary
\* reads: a header without a name portion is left out
get_ds_labels(cols) ==
    IF Len(cols) = 0 THEN <<>>
    ELSE LabelOf[cols[1]] \o get_ds_labels(Tail(cols))

\* cells of a raw table: the number -9999999.0, the text "-9999999", a text
\* pd.to_datetime reads and one it raises on
Cell ==
    [ NumSentinel |-> "-9999999.0",
      StrSentinel |-> "'-9999999'",
      ValidTime   |-> "'2019-07-01 12:00'",
      BadTime     |-> "'12:00 noonish'" ]

IsNa(v) == v \in { "NaN", "NaT" }

\* _convert_dt(time_str): pd.to_datetime, NaN when it raises
_convert_dt(time_str) ==
    IF time_str = Cell.ValidTime THEN "Timestamp('2019-07-01 12:00')"
    ELSE IF IsNa(time_str) THEN "NaT"
    ELSE "NaN"

\* the positions of seq that hold an element of S
Positions(seq, S) == { i \in 1..Len(seq) : seq[i] \in S }

RECURSIVE Filter(_, _)
\* the rows whose cells at the positions cols are all present, in order
Filter(rows, cols) ==
    IF Len(rows) = 0 THEN <<>>
    ELSE IF \A c \in cols : ~IsNa(rows[1][c])
         THEN <<rows[1]>> \o Filter(Tail(rows), cols)
         ELSE Filter(Tail(rows), cols)

RECURSIVE DropEmptyRows(_)
\* dropna(how="all")
DropEmptyRows(rows) ==
    IF Len(rows) = 0 THEN <<>>
    ELSE IF \E c \in 1..Len(rows[1]) : ~IsNa(rows[1][c])
         THEN <<rows[1]>> \o DropEmptyRows(Tail(rows))
         ELSE DropEmptyRows(Tail(rows))

\* DataFrame.replace(old, NaN) over every column
ReplaceCells(rows, old) ==
    [ r \in 1..Len(rows) |->
        [ c \in 1..Len(rows[r]) |-> IF rows[r][c] = old THEN "NaN" ELSE rows[r][c] ] ]

\* the column c of every row run through _convert_dt
ConvertColumn(rows, c) ==
    [ r \in 1..Len(rows) |-> [ rows[r] EXCEPT ![c] = _convert_dt(@) ] ]

RECURSIVE KeepPositions(_, _, _)
\* seq without the elements at the positions drop
KeepPositions(seq, i, drop) ==
    IF i > Len(seq) THEN <<>>
    ELSE IF i \in drop THEN KeepPositions(seq, i + 1, drop)
    ELSE <<seq[i]>> \o KeepPositions(seq, i + 1, drop)

RECURSIVE TimeLoop(_, _, _)
\* for col in time_cols, in column order from position c on
TimeLoop(rows, names, c) ==
    IF c > Len(names) THEN rows
    ELSE IF Contains(names[c], Term.time)
         THEN TimeLoop(ConvertColumn(Filter(ReplaceCells(rows, Cell.StrSentinel), { c }), c),
                       names, c + 1)
         ELSE TimeLoop(rows, names, c + 1)

\* clean_discrete_summary(svdf): the outcome and the table returned
clean_discrete_summary(raw) ==
    LET rows0 == DropEmptyRows(raw.rows)
        unnamed_cols == { c \in 1..Len(raw.headers) : IsUnnamed[raw.headers[c]] }
        cols == KeepPositions(raw.headers, 1, unnamed_cols)
        cleaned == [ r \in 1..Len(rows0) |-> KeepPositions(rows0[r], 1, unnamed_cols) ]
        names == get_ds_labels(cols)
        failed(e) == [ pc |-> e, table |-> [ columns |-> <<>>, rows |-> <<>> ] ]
    IN
    IF Len(names) # Len(cols) THEN failed("ValueError")
    ELSE IF Positions(names, { Col.cruise }) = {} THEN failed("KeyError")
    ELSE
      LET by_cruise == Filter(ReplaceCells(cleaned, Cell.NumSentinel),
                              Positions(names, { Col.cruise }))
          time_cols == { c \in 1..Len(names) : Contains(names[c], Term.time) }
          all_cleaned0 == Filter(TimeLoop(by_cruise, names, 1), time_cols)
      IN  IF Positions(names, { Col.station }) = {} THEN failed("AttributeError")
          ELSE [ pc |-> "returned", table |-> [ columns |-> names, rows |-> all_cleaned0 ] ]

\* what a column of a summary file holds
CellsOf(header) ==
    IF header = Header.Cruise
    THEN { "NaN", Cell.NumSentinel, Cell.StrSentinel, "'AT42-12'" }
    ELSE IF header = Header.Station
    THEN { "NaN", "'Axial Base'" }
    ELSE IF header = Header.Start_Time
    THEN { "NaN", Cell.NumSentinel, Cell.StrSentinel, Cell.ValidTime, Cell.BadTime }
    ELSE IF header = Header.Closure_Time
    THEN { "NaN", Cell.StrSentinel, Cell.ValidTime }
    ELSE { "NaN", "'x'" }

RECURSIVE RowsOf(_)
\* the rows a file with these headers may hold
RowsOf(headers) ==
    IF Len(headers) = 0 THEN { <<>> }
    ELSE { <<v>> \o rest : v \in CellsOf(headers[1]), rest \in RowsOf(Tail(headers)) }

NoTable == [ columns |-> <<>>, rows |-> <<>> ]

InitClean ==
    /\ \E h \in Layouts : \E n \in 0..MaxRows : \E rs \in [1..n -> RowsOf(h)] :
          svdf = [ headers |-> h, rows |-> rs ]
    /\ all_cleaned = NoTable
    /\ pcClean = "read"
    /\ IdleName /\ IdleArea /\ IdleParse /\ IdleSplit
    /\ IdleLatest /\ IdleTypes /\ IdleRead

\* clean_discrete_summary(svdf, expected_columns)
CleanDiscreteSummary ==
    /\ pcClean = "read"
    /\ LET r == clean_discrete_summary(svdf) IN
         /\ pcClean' = r.pc
         /\ all_cleaned' = r.table
    /\ UNCHANGED <<svdf, notClean>>

NextClean == CleanDiscreteSummary

SpecClean == InitClean /\ [][NextClean]_vars

\* C2: in the table clean_discrete_summary returns, no row has a missing
\* cruise or a missing value in a column whose name contains "time".
C2_NoMissingCruiseOrTime ==
    pcClean = "returned" =>
        \A r \in 1..Len(all_cleaned.rows) : \A c \in 1..Len(all_cleaned.columns) :
            (all_cleaned.columns[c] = Col.cruise \/ Contains(all_cleaned.columns[c], Term.time))
                => ~IsNa(all_cleaned.rows[r][c])

(***************************************************************************)
(* api.py: get_contents, filter_contents, get_latest_content.  A contents  *)
(* table is its rows in order; a row carries its index label.  "modified"  *)
(* is the year of the timestamp.                                           *)
(***************************************************************************)
\* the texts filter_contents looks for in a file name
FilePattern ==
    [ README |-> <<"R","E","A","D","M","E">>,
      Discrete_Summary |-> <<"D","i","s","c","r","e","t","e","_","S","u","m","m","a","r","y">>,
      xls |-> <<"x","l","s">> ]

\* file names of a folder listing
FileName ==
    [ README |-> <<"R","E","A","D","M","E",".","t","x","t">>,
      Summary_csv |-> <<"D","i","s","c","r","e","t","e","_","S","u","m","m","a","r","y",".","c","s","v">>,
      Summary_xlsx |-> <<"D","i","s","c","r","e","t","e","_","S","u","m","m","a","r","y",".","x","l","s","x">> ]

\* the cruises of the source registry (SOURCEDF), in file order, which is
\* also their sort order
Cruises == <<"AR-04", "SKQ-17">>
\* the kinds in sort order
Kinds == <<"readme", "summary">>

FileNames == { FileName.README, FileName.Summary_csv, FileName.Summary_xlsx }
Years == { 2012, 2015, 2019 }

\* the listing get_folder_contents returns for a folder: rows with a fresh
\* 0-based index, one per file name
Listing(files) ==
    [ ok |-> TRUE,
      rows |-> [ i \in 1..Len(files) |->
                   [ index |-> i - 1, name |-> files[i].name,
                     modified |-> files[i].modified, cruise_id |-> "", kind |-> "" ] ] ]

\* the request failed: nothing is returned
NoListing == [ ok |-> FALSE, rows |-> <<>> ]

\* what a folder may answer: no two files of a folder share a name
Listings ==
    { Listing(fs) :
        fs \in { f \in SeqsUpTo([ name : FileNames, modified : Years ], MaxFiles) :
                   \A i, j \in 1..Len(f) : i # j => f[i].name # f[j].name } }
    \cup { NoListing }

\* d.loc[:, "cruise_id"] = cruise_id
WithCruise(rows, c) == [ i \in 1..Len(rows) |-> [ rows[i] EXCEPT !.cruise_id = c ] ]

\* reset_index(drop=...)
ResetIndex(rows) == [ i \in 1..Len(rows) |-> [ rows[i] EXCEPT !.index = i - 1 ] ]

RECURSIVE ConcatAll(_, _)
\* the frames of the cruises from position i on, appended with their own
\* index labels (pd.concat)
ConcatAll(listings, i) ==
    IF i > Len(Cruises) THEN <<>>
    ELSE (IF listings[Cruises[i]].ok
          THEN WithCruise(listings[Cruises[i]].rows, Cruises[i])
          ELSE <<>>) \o ConcatAll(listings, i + 1)

\* get_contents(cruise_id); cruise_id = "None" asks for every cruise
get_contents(listings, cruise_id) ==
    IF cruise_id = "None"
    THEN IF \A i \in 1..Len(Cruises) : ~listings[Cruises[i]].ok
         THEN [ pc |-> "ValueError", rows |-> <<>> ]
         ELSE [ pc |-> "contents", rows |-> ConcatAll(listings, 1) ]
    ELSE IF listings[cruise_id].ok
         THEN [ pc |-> "contents", rows |-> WithCruise(listings[cruise_id].rows, cruise_id) ]
         ELSE [ pc |-> "None", rows |-> <<>> ]

\* rows[mask] for the mask that holds at the positions keep, the index
\* labels kept
SelectRows(rows, keep) == KeepPositions(rows, 1, (1..Len(rows)) \ keep)

\* str.contains(".xls"): any character followed by xls
ContainsDotXls(s) == \E i \in 2..Len(s) : IsAt(s, i, FilePattern.xls)

\* contents["modified"] > "2013", in years
FirstYear == 2013

IsSummaryFile(row) ==
    /\ row.modified >= FirstYear
    /\ (Contains(row.name, FilePattern.README) \/ Contains(row.name, FilePattern.Discrete_Summary))
    /\ ~ContainsDotXls(row.name)

KindOf(row) == IF Contains(row.name, FilePattern.README) THEN "readme" ELSE "summary"

KindArgs == { "all", "readme", "summary", "csv" }

\* filter_contents(contents, kind)
filter_contents(rows, kind) ==
    LET kept == ResetIndex(SelectRows(rows, { i \in 1..Len(rows) : IsSummaryFile(rows[i]) }))
        filtered_files == [ i \in 1..Len(kept) |-> [ kept[i] EXCEPT !.kind = KindOf(kept[i]) ] ]
        of_kind == { i \in 1..Len(filtered_files) : filtered_files[i].kind = kind }
    IN  IF kind = "all" THEN [ pc |-> "filtered", rows |-> filtered_files ]
        ELSE IF kind \in { "readme", "summary" }
        THEN [ pc |-> "filtered", rows |-> ResetIndex(SelectRows(filtered_files, of_kind)) ]
        ELSE [ pc |-> "ValueError", rows |-> <<>> ]

\* the rows of one group, in table order
GroupRows(rows, c, k) ==
    SelectRows(rows, { i \in 1..Len(rows) : rows[i].cruise_id = c /\ rows[i].kind = k })

\* idxmax of "modified" in a group: the index label of the first row that
\* holds the maximum
IdxMax(g) ==
    g[CHOOSE i \in 1..Len(g) :
        /\ \A j \in 1..Len(g) : g[j].modified <= g[i].modified
        /\ \A j \in 1..(i - 1) : g[j].modified < g[i].modified].index

RECURSIVE GroupLabels(_, _, _, _)
\* group["modified"].idxmax(): one label per group, the groups in sort order
GroupLabels(rows, ci, ki, kinds) ==
    IF ci > Len(Cruises) THEN <<>>
    ELSE IF ki > Len(kinds) THEN GroupLabels(rows, ci + 1, 1, kinds)
    ELSE LET g == GroupRows(rows, Cruises[ci], kinds[ki]) IN
         (IF Len(g) = 0 THEN <<>> ELSE <<IdxMax(g)>>)
         \o GroupLabels(rows, ci, ki + 1, kinds)

RECURSIVE Loc(_, _)
\* contents.loc[labels]: for each label in turn, every row that carries it
Loc(rows, labels) ==
    IF Len(labels) = 0 THEN <<>>
    ELSE SelectRows(rows, { i \in 1..Len(rows) : rows[i].index = labels[1] })
         \o Loc(rows, Tail(labels))

\* get_latest_content(contents) on a table with a cruise_id column: a
\* single row comes back as a Series
get_latest_content(table) ==
    LET kinds == IF table.has_kind THEN Kinds ELSE <<"">>
        picked == ResetIndex(Loc(table.rows, GroupLabels(table.rows, 1, 1, kinds)))
    IN  [ type |-> IF Len(picked) = 1 THEN "Series" ELSE "DataFrame", rows |-> picked ]

NoContents == [ has_cruise_id |-> FALSE, has_kind |-> FALSE, rows |-> <<>> ]
NoLatest == [ type |-> "None", rows |-> <<>> ]

InitLatest ==
    /\ folders \in [ { Cruises[i] : i \in 1..Len(Cruises) } -> Listings ]
    /\ contents = NoContents
    /\ latest = NoLatest
    /\ pcLatest = "start"
    /\ IdleName /\ IdleArea /\ IdleParse /\ IdleSplit
    /\ IdleClean /\ IdleTypes /\ IdleRead

\* parser.get_folder_contents(folder_url) of one cruise, used as it is
GetFolderContents ==
    /\ pcLatest = "start"
    /\ \E i \in 1..Len(Cruises) :
         /\ folders[Cruises[i]].ok
         /\ contents' = [ has_cruise_id |-> FALSE, has_kind |-> FALSE,
                          rows |-> folders[Cruises[i]].rows ]
    /\ pcLatest' = "contents"
    /\ UNCHANGED <<folders, latest, notLatest>>

\* get_contents(cruise_id)
GetContents ==
    /\ pcLatest = "start"
    /\ \E arg \in { "None" } \cup { Cruises[i] : i \in 1..Len(Cruises) } :
         LET r == get_contents(folders, arg) IN
           /\ pcLatest' = r.pc
           /\ contents' = IF r.pc = "contents"
                          THEN [ has_cruise_id |-> TRUE, has_kind |-> FALSE, rows |-> r.rows ]
                          ELSE contents
    /\ UNCHANGED <<folders, latest, notLatest>>

\* filter_contents(contents, kind)
FilterContents ==
    /\ pcLatest = "contents"
    /\ \E kind \in KindArgs :
         LET r == filter_contents(contents.rows, kind) IN
           /\ pcLatest' = r.pc
           /\ contents' = IF r.pc = "filtered"
                          THEN [ contents EXCEPT !.has_kind = TRUE, !.rows = r.rows ]
                          ELSE contents
    /\ UNCHANGED <<folders, latest, notLatest>>

\* get_latest_content(contents)
GetLatestContent ==
    /\ pcLatest \in { "contents", "filtered" }
    /\ IF ~contents.has_cruise_id
       THEN pcLatest' = "ValueError" /\ UNCHANGED latest
       ELSE pcLatest' = "latest" /\ latest' = get_latest_content(contents)
    /\ UNCHANGED <<folders, contents, notLatest>>

NextLatest == GetFolderContents \/ GetContents \/ FilterContents \/ GetLatestContent

SpecLatest == InitLatest /\ [][NextLatest]_vars

\* the (cruise_id, kind) groups of a table
GroupKeys(rows) == { <<rows[i].cruise_id, rows[i].kind>> : i \in 1..Len(rows) }

\* C5: get_latest_content returns exactly one descriptor per (cruise_id
\* [, kind]) group, the one with the group's maximum "modified", whatever
\* the index labels of the table are.
C5_OnePerGroup ==
    pcLatest = "latest" =>
        /\ Len(latest.rows) = Cardinality(GroupKeys(contents.rows))
        /\ \A key \in GroupKeys(contents.rows) :
             \E i \in 1..Len(latest.rows) :
                /\ <<latest.rows[i].cruise_id, latest.rows[i].kind>> = key
                /\ \A j \in 1..Len(contents.rows) :
                     <<contents.rows[j].cruise_id, contents.rows[j].kind>> = key
                        => contents.rows[j].modified <= latest.rows[i].modified

(***************************************************************************)
(* validator.py: check_types_and_replace.  A table is its columns in       *)
(* order, a column its name, its dtype ("O" or "float64") and its cells.   *)
(* A cell is a float, a str (its characters) or NaN.                       *)
(***************************************************************************)
Float(text) == [ type |-> "float", text |-> text ]
Str(text) == [ type |-> "str", text |-> text ]
Missing == [ type |-> "NaN", text |-> <<>> ]

\* A faulty variant: the "flag" exclusion is left out of the naming filter.
IsValueColumnNoFlag(k) ==
    /\ \E x \in { Term.ctd, Term.discrete, Term.calculated } : Contains(k, x)
    /\ ~Contains(k, Term.file)
    /\ ~Contains(k, Term.bottle_closure_time)

\* the naming filter of the loop
IsValueColumn(k) ==
    /\ \E x \in { Term.ctd, Term.discrete, Term.calculated } : Contains(k, x)
    /\ ~Contains(k, Term.file)
    /\ ~Contains(k, Term.bottle_closure_time)
    /\ ~Contains(k, Term.flag)

\* do.str.contains("\w").fillna(False) for one cell
StringFilter(cell) ==
    cell.type = "str" /\ \E i \in 1..Len(cell.text) : IsWordChar(cell.text[i])

\* float(text) succeeds: digits with an optional sign and decimal point
IsFloatText(text) ==
    /\ \E i \in 1..Len(text) : text[i] \in Digits
    /\ \A i \in 1..Len(text) : text[i] \in Digits \cup { ".", "-", "+" }
    /\ \A i \in 2..Len(text) : text[i] \notin { "-", "+" }
    /\ Cardinality({ i \in 1..Len(text) : text[i] = "." }) <= 1

\* astype(np.float64) raises on this cell
NotFloat(cell) == cell.type = "str" /\ ~IsFloatText(cell.text)

\* astype(np.float64) of one cell
AsFloat(cell) == IF cell.type = "str" THEN Float(cell.text) ELSE cell

RECURSIVE CheckLoop(_, _)
\* for k, v in df.dtypes.items(), from column i on: the table is changed in
\* place, so a raise leaves what was done before it
CheckLoop(table, i) ==
    IF i > Len(table) THEN [ pc |-> "returned", df |-> table ]
    ELSE IF IsValueColumn(table[i].name) /\ table[i].dtype = "O"
    THEN LET masked == [ r \in 1..Len(table[i].cells) |->
                           IF StringFilter(table[i].cells[r]) THEN Missing
                           ELSE table[i].cells[r] ]
             t1 == [ table EXCEPT ![i].cells = masked ]
         IN  IF \E r \in 1..Len(masked) : NotFloat(masked[r])
             THEN [ pc |-> "ValueError", df |-> t1 ]
             ELSE CheckLoop([ t1 EXCEPT ![i].dtype = "float64",
                                        ![i].cells = [ r \in 1..Len(masked) |-> AsFloat(masked[r]) ] ],
                            i + 1)
    ELSE CheckLoop(table, i + 1)

check_types_and_replace(table) == CheckLoop(table, 1)

TypedNames ==
    { Col.ctd_oxygen, Col.discrete_oxygen_flag, Col.station, Col.ctd_file, Col.calculated_dic }

\* the columns of n cells
ColumnsOf(n) ==
    LET ObjectCells == { Float(<<"1", ".", "5">>), Str(<<"a", "b", "c">>), Str(<<"-">>), Missing }
        FloatCells == { Float(<<"1", ".", "5">>), Missing }
    IN
    { [ name |-> k, dtype |-> "O", cells |-> cs ] :
        k \in TypedNames, cs \in [1..n -> ObjectCells] }
    \cup
    { [ name |-> k, dtype |-> "float64", cells |-> cs ] :
        k \in TypedNames, cs \in [1..n -> FloatCells] }

InitTypes ==
    /\ \E n \in 1..MaxCells : \E a \in ColumnsOf(n) : \E b \in ColumnsOf(n) :
          /\ a.name # b.name
          /\ df0 = <<a, b>>
    /\ df = df0
    /\ pcTypes = "cleaned"
    /\ IdleName /\ IdleArea /\ IdleParse /\ IdleSplit
    /\ IdleClean /\ IdleLatest /\ IdleRead

\* check_types_and_replace(df)
CheckTypesAndReplace ==
    /\ pcTypes = "cleaned"
    /\ LET r == check_types_and_replace(df) IN
         /\ pcTypes' = r.pc
         /\ df' = r.df
    /\ UNCHANGED <<df0, notTypes>>

NextTypes == CheckTypesAndReplace

SpecTypes == InitTypes /\ [][NextTypes]_vars

\* a column the validator must not touch, by its name
Exempt(k) ==
    \/ ~(Contains(k, Term.ctd) \/ Contains(k, Term.discrete) \/ Contains(k, Term.calculated))
    \/ Contains(k, Term.file)
    \/ Contains(k, Term.bottle_closure_time)
    \/ Contains(k, Term.flag)

\* C6: check_types_and_replace leaves every column unchanged, cells and
\* dtype, whose name has none of "ctd", "discrete", "calculated" or has
\* "file", "bottle_closure_time" or "flag"; only object-typed columns that
\* pass the naming filter are modified.
C6_ExemptUnchanged ==
    pcTypes # "cleaned" =>
        \A i \in 1..Len(df0) :
            (Exempt(df0[i].name) \/ df0[i].dtype # "O") => df[i] = df0[i]

\* C6 happens: an exempt object column holding text comes back as it was,
\* next to a column the validator did change
C6_Witness ==
    /\ pcTypes = "returned"
    /\ \E i, j \in 1..Len(df0) :
          /\ Exempt(df0[i].name)
          /\ df0[i].dtype = "O"
          /\ \E r \in 1..Len(df0[i].cells) : StringFilter(df0[i].cells[r])
          /\ df[j] # df0[j]

\* C7: for an object-typed column the naming filter selects,
\* check_types_and_replace completes without raising, whatever the column
\* holds, and leaves the column as float64 with no text in it.
C7_NeverRaises ==
    /\ pcTypes # "ValueError"
    /\ pcTypes = "returned" =>
         \A i \in 1..Len(df0) :
            (~Exempt(df0[i].name) /\ df0[i].dtype = "O") =>
                /\ df[i].dtype = "float64"
                /\ \A r \in 1..Len(df[i].cells) : df[i].cells[r].type # "str"

(***************************************************************************)
(* api.py: read_and_clean.  A cleaned fragment is known by the cruise_id   *)
(* assigned to it and by the url of the file its rows were read from; the  *)
(* files of the model are ones the cleaner and the validator accept.       *)
(***************************************************************************)
\* the url endings read_and_clean knows how to read
Suffix ==
    [ csv |-> <<".","c","s","v">>,
      xlsx |-> <<".","x","l","s","x">> ]

\* urls of descriptors
Url ==
    [ a_csv |-> <<"/","f","i","l","e","s","/","a",".","c","s","v">>,
      b_csv |-> <<"/","f","i","l","e","s","/","b",".","c","s","v">>,
      c_xlsx |-> <<"/","f","i","l","e","s","/","c",".","x","l","s","x">>,
      d_pdf |-> <<"/","f","i","l","e","s","/","d",".","p","d","f">> ]

\* SOURCEDF: cruise_id -> array_rd
SourceArray == [ c \in { Cruises[i] : i \in 1..Len(Cruises) } |->
                   IF c = Cruises[1] THEN "RS" ELSE "CE" ]

\* a cruise the registry does not list
UnlistedCruise == "TN-313"

Descriptors ==
    [ cruise_id : DOMAIN SourceArray \cup { UnlistedCruise },
      url : { Url.a_csv, Url.b_csv, Url.c_xlsx, Url.d_pdf },
      kind : { "readme", "summary" } ]

\* pd.merge(discrete_summaries, SOURCEDF, on="cruise_id"): the rows with a
\* listed cruise, in their order
Merged(rows) ==
    KeepPositions(rows, 1, { i \in 1..Len(rows) : rows[i].cruise_id \notin DOMAIN SourceArray })

\* the position of array a among the keys of the dict, 0 when it is no key
KeyPosition(dict, a) ==
    IF \E i \in 1..Len(dict) : dict[i].array_rd = a
    THEN CHOOSE i \in 1..Len(dict) : dict[i].array_rd = a
    ELSE 0

\* svdf_arrays[a].append(fragment), the key added first when it is new
AppendTo(dict, a, fragment) ==
    LET d == IF KeyPosition(dict, a) = 0
             THEN Append(dict, [ array_rd |-> a, fragments |-> <<>> ])
             ELSE dict
    IN  [ d EXCEPT ![KeyPosition(d, a)].fragments = Append(@, fragment) ]

Unbound == [ bound |-> FALSE, url |-> <<>> ]

\* the table svdf names after the if / elif on the url: the one just read,
\* or whatever it named before
NextSvdf(svdf_, url) ==
    IF EndsWith(url, Suffix.csv) \/ EndsWith(url, Suffix.xlsx)
    THEN [ bound |-> TRUE, url |-> url ]
    ELSE svdf_

RECURSIVE ReadLoop(_, _, _, _)
\* for _, row in merged_summaries.iterrows(), from row i on
ReadLoop(rows, i, svdf_, dict) ==
    IF i > Len(rows) THEN [ pc |-> "returned", svdf_arrays |-> dict ]
    ELSE LET read == NextSvdf(svdf_, rows[i].url)
             a == SourceArray[rows[i].cruise_id]
         IN  IF ~read.bound
             THEN [ pc |-> "UnboundLocalError", svdf_arrays |-> dict ]
             ELSE ReadLoop(rows, i + 1, read,
                           AppendTo(dict, a, [ cruise_id |-> rows[i].cruise_id,
                                               data |-> read.url ]))

\* read_and_clean(discrete_summaries): the first element of the tuple
read_and_clean(rows) ==
    LET unique_kinds == { rows[i].kind : i \in 1..Len(rows) } IN
    IF Cardinality(unique_kinds) # 1 \/ unique_kinds # { "summary" }
    THEN [ pc |-> "ValueError", svdf_arrays |-> <<>> ]
    ELSE ReadLoop(Merged(rows), 1, Unbound, <<>>)

InitRead ==
    /\ discrete_summaries \in SeqsUpTo(Descriptors, MaxDescriptors) \cup { <<>> }
    /\ svdf_arrays = <<>>
    /\ pcRead = "latest"
    /\ IdleName /\ IdleArea /\ IdleParse /\ IdleSplit
    /\ IdleClean /\ IdleLatest /\ IdleTypes

\* read_and_clean(discrete_summaries)
ReadAndClean ==
    /\ pcRead = "latest"
    /\ LET r == read_and_clean(discrete_summaries) IN
         /\ pcRead' = r.pc
         /\ svdf_arrays' = r.svdf_arrays
    /\ UNCHANGED <<discrete_summaries, notRead>>

NextRead == ReadAndClean

SpecRead == InitRead /\ [][NextRead]_vars

\* the fragments accumulated for array a
FragmentsOf(a) ==
    IF KeyPosition(svdf_arrays, a) = 0 THEN <<>>
    ELSE svdf_arrays[KeyPosition(svdf_arrays, a)].fragments

\* one fragment per descriptor of array a, in input order, each from the
\* file at the descriptor's own url
ExpectedOf(a) ==
    LET mine == KeepPositions(discrete_summaries, 1,
                   { i \in 1..Len(discrete_summaries) :
                       \/ discrete_summaries[i].cruise_id \notin DOMAIN SourceArray
                       \/ SourceArray[discrete_summaries[i].cruise_id] # a })
    IN  [ i \in 1..Len(mine) |-> [ cruise_id |-> mine[i].cruise_id, data |-> mine[i].url ] ]

\* C9: the table returned for an array is the concatenation, in input
\* order, of one fragment per descriptor of that array, each built from the
\* file at the descriptor's own url.
C9_OwnFilePerDescriptor ==
    pcRead = "returned" =>
        \A a \in { "RS", "CE" } : FragmentsOf(a) = ExpectedOf(a)

=============================================================================
